---- MODULE Spec2Model ----
(***************************************************************************)
(* A model of the mac-mcp tool server (src/src/index.js): the tool         *)
(* registry, the call-tool dispatcher and the tool handlers.  A handler is *)
(* a straight-line async function: a sequence of try blocks, each issuing  *)
(* external commands one after another through execAsync.  One step of the *)
(* model is one execAsync call (it succeeds with some stdout, or rejects), *)
(* together with the synchronous code that follows it up to the next       *)
(* await or the return.                                                    *)
(***************************************************************************)
EXTENDS Integers, Sequences, FiniteSets, TLC

VARIABLES
    request,   \* the call-tool request being served: name, arguments
    handler,   \* the handler function the switch selected ("none": no handler ran)
    eff,       \* the handler's parameters after destructuring with defaults
    blk,       \* index of the try block the handler is in
    pos,       \* index of the next execAsync call inside that block
    issued,    \* external commands issued by this invocation, in order
    failed,    \* the call sites <<block, command>> whose command rejected
    outs,      \* stdout captured so far, by the name of the variable bound to it
    records,   \* what each finished block produced, in order
    response,  \* none yet / the returned payload / the thrown error
    env,       \* the behaviour of the external commands observed so far
    prev,      \* the preceding invocation, when the same call is repeated
    other      \* a second invocation in flight at the same time, if any

vars == <<request, handler, eff, blk, pos, issued, failed, outs, records, response, env, prev,
          other>>

\* ------------------------------------------------------------------ bounds

\* at most MaxFailures external commands reject during one invocation
MaxFailures == 2

\* a listing command (find, ls) reports 0..MaxFound entries
MaxFound == 1

\* a request names at most MaxTargets elements in the targets array
MaxTargets == 2

\* system_profiler reports a maximum capacity of 0..MaxCapacityPercent percent
MaxCapacityPercent == 100

\* the process table holds 0..MaxProcs processes
MaxProcs == 2

\* ------------------------------------------------------------------ registry

\* The tools array: the registered names, in registry order.
tools ==
    << "mac_disk_usage", "mac_go_cache_status", "mac_cleanup_caches",
       "mac_cleanup_docker", "mac_memory_status", "mac_cleanup_recommendations",
       "mac_empty_trash", "mac_full_cleanup_workflow", "mac_analyze_library",
       "mac_developer_cleanup", "mac_cpu_usage", "mac_thermal_status",
       "mac_battery_health", "mac_system_info", "mac_process_list",
       "mac_kill_process", "mac_startup_items", "mac_network_status" >>

ToolNames == {tools[i] : i \in DOMAIN tools}

\* The record with no fields.
NoFields == <<>>

\* inputSchema.properties of each tool: the declared parameter names.
SchemaProperties(name) ==
    CASE name = "mac_disk_usage" -> {"path", "depth"}
      [] name = "mac_cleanup_caches" -> {"targets", "dryRun"}
      [] name = "mac_cleanup_docker" -> {"includeVolumes", "dryRun"}
      [] name = "mac_empty_trash" -> {"dryRun"}
      [] name = "mac_full_cleanup_workflow" ->
            {"includeDocker", "includeDockerVolumes", "dryRun"}
      [] name = "mac_developer_cleanup" ->
            {"cleanNodeModules", "cleanXcode", "cleanPyenvOldVersions", "dryRun"}
      [] name = "mac_cpu_usage" -> {"topN"}
      [] name = "mac_process_list" -> {"sortBy", "limit", "filter"}
      [] name = "mac_kill_process" -> {"pid", "name", "force"}
      [] name = "mac_startup_items" -> {"showDisabled"}
      [] OTHER -> {}

\* The "default" entries of each tool's inputSchema (a parameter with no
\* declared default has no field here).  An array is modelled as the set of its
\* elements: the handlers only test membership (targets.includes).
SchemaDefaults(name) ==
    CASE name = "mac_disk_usage" -> [path |-> "~", depth |-> 1]
      [] name = "mac_cleanup_caches" -> [targets |-> {"all"}, dryRun |-> FALSE]
      [] name = "mac_cleanup_docker" -> [includeVolumes |-> FALSE, dryRun |-> FALSE]
      [] name = "mac_empty_trash" -> [dryRun |-> FALSE]
      [] name = "mac_full_cleanup_workflow" ->
            [includeDocker |-> FALSE, includeDockerVolumes |-> FALSE, dryRun |-> FALSE]
      [] name = "mac_developer_cleanup" ->
            [cleanNodeModules |-> FALSE, cleanXcode |-> FALSE,
             cleanPyenvOldVersions |-> FALSE, dryRun |-> TRUE]
      [] name = "mac_cpu_usage" -> [topN |-> 10]
      [] name = "mac_process_list" -> [sortBy |-> "cpu", limit |-> 20]
      [] name = "mac_kill_process" -> [force |-> FALSE]
      [] name = "mac_startup_items" -> [showDisabled |-> FALSE]
      [] OTHER -> NoFields

\* The enum declared for a parameter of a tool ({} when none is declared).
SchemaEnum(name, param) ==
    CASE name = "mac_cleanup_caches" /\ param = "targets" ->
            {"go", "brew", "npm", "pip", "chrome", "spotify", "all"}
      [] name = "mac_process_list" /\ param = "sortBy" -> {"cpu", "memory", "name"}
      [] OTHER -> {}

\* ------------------------------------------------------------------ dispatch

\* SwitchCases with the label of one case mistyped.
SwitchCases_Mistyped ==
    << "mac_disk_usage", "mac_go_cache_status", "mac_cleanup_caches",
       "mac_cleanup_docker", "mac_memory_status", "mac_cleanup_recommendations",
       "mac_empty_trash", "mac_full_cleanup_workflow", "mac_analyze_library",
       "mac_developer_cleanup", "mac_cpu_usage", "mac_thermal_status",
       "mac_battery_health", "mac_system_info", "mac_process_list",
       "mac_kill_process", "mac_startup_item", "mac_network_status" >>

\* The case labels of the switch in the CallToolRequestSchema handler.
SwitchCases ==
    << "mac_disk_usage", "mac_go_cache_status", "mac_cleanup_caches",
       "mac_cleanup_docker", "mac_memory_status", "mac_cleanup_recommendations",
       "mac_empty_trash", "mac_full_cleanup_workflow", "mac_analyze_library",
       "mac_developer_cleanup", "mac_cpu_usage", "mac_thermal_status",
       "mac_battery_health", "mac_system_info", "mac_process_list",
       "mac_kill_process", "mac_startup_items", "mac_network_status" >>

\* The handler each case calls, in the order of the cases.
CaseHandlers ==
    << "handleDiskUsage", "handleGoCacheStatus", "handleCleanupCaches",
       "handleDockerCleanup", "handleMemoryStatus", "handleCleanupRecommendations",
       "handleEmptyTrash", "handleFullCleanupWorkflow", "handleAnalyzeLibrary",
       "handleDeveloperCleanup", "handleCpuUsage", "handleThermalStatus",
       "handleBatteryHealth", "handleSystemInfo", "handleProcessList",
       "handleKillProcess", "handleStartupItems", "handleNetworkStatus" >>

\* The cases that match a name, in order (a switch runs the first).
MatchingCases(name) == {i \in DOMAIN SwitchCases : SwitchCases[i] = name}

Min(S) == CHOOSE x \in S : \A y \in S : x <= y

\* HandlerOf with a default branch that falls back to a handler instead of
\* throwing.
HandlerOf_FallsBack(name) ==
    IF MatchingCases(name) = {} THEN "handleSystemInfo"
    ELSE CaseHandlers[Min(MatchingCases(name))]

\* switch (name): the handler of the first matching case; "none" stands for the
\* default branch, which throws.
HandlerOf(name) ==
    IF MatchingCases(name) = {} THEN "none"
    ELSE CaseHandlers[Min(MatchingCases(name))]

\* The cases that pass (args || {}) to the handler; the others call it with
\* no argument at all.
PassesArgs(h) ==
    h \in {"handleDiskUsage", "handleCleanupCaches", "handleDockerCleanup",
           "handleEmptyTrash", "handleFullCleanupWorkflow", "handleDeveloperCleanup",
           "handleCpuUsage", "handleProcessList", "handleKillProcess",
           "handleStartupItems"}

\* ParamDefaults with handleCleanupCaches defaulting targets to ["go"].
ParamDefaults_GoOnly(h) ==
    CASE h = "handleDiskUsage" -> [path |-> "~", depth |-> 1]
      [] h = "handleCleanupCaches" -> [targets |-> {"go"}, dryRun |-> FALSE]
      [] h = "handleDockerCleanup" -> [includeVolumes |-> FALSE, dryRun |-> FALSE]
      [] h = "handleEmptyTrash" -> [dryRun |-> FALSE]
      [] h = "handleFullCleanupWorkflow" ->
            [includeDocker |-> FALSE, includeDockerVolumes |-> FALSE, dryRun |-> FALSE]
      [] h = "handleDeveloperCleanup" ->
            [cleanNodeModules |-> FALSE, cleanXcode |-> FALSE,
             cleanPyenvOldVersions |-> FALSE, dryRun |-> TRUE]
      [] h = "handleCpuUsage" -> [topN |-> 10]
      [] h = "handleProcessList" -> [sortBy |-> "cpu", limit |-> 20, filter |-> ""]
      [] h = "handleKillProcess" -> [force |-> FALSE]
      [] h = "handleStartupItems" -> [showDisabled |-> FALSE]
      [] OTHER -> NoFields

\* The default values in each handler's destructuring parameter.
ParamDefaults(h) ==
    CASE h = "handleDiskUsage" -> [path |-> "~", depth |-> 1]
      [] h = "handleCleanupCaches" -> [targets |-> {"all"}, dryRun |-> FALSE]
      [] h = "handleDockerCleanup" -> [includeVolumes |-> FALSE, dryRun |-> FALSE]
      [] h = "handleEmptyTrash" -> [dryRun |-> FALSE]
      [] h = "handleFullCleanupWorkflow" ->
            [includeDocker |-> FALSE, includeDockerVolumes |-> FALSE, dryRun |-> FALSE]
      [] h = "handleDeveloperCleanup" ->
            [cleanNodeModules |-> FALSE, cleanXcode |-> FALSE,
             cleanPyenvOldVersions |-> FALSE, dryRun |-> TRUE]
      [] h = "handleCpuUsage" -> [topN |-> 10]
      [] h = "handleProcessList" -> [sortBy |-> "cpu", limit |-> 20, filter |-> ""]
      [] h = "handleKillProcess" -> [force |-> FALSE]
      [] h = "handleStartupItems" -> [showDisabled |-> FALSE]
      [] OTHER -> NoFields

\* The names each handler destructures from its argument.
ParamNames(h) ==
    IF h = "handleKillProcess" THEN {"pid", "name", "force"}
    ELSE DOMAIN ParamDefaults(h)

\* Destructuring with defaults: a property of the argument is taken when it is
\* present, the default otherwise; a parameter with neither stays undefined
\* (no field).  Properties the handler does not name are ignored.
Destructure(h, args) ==
    [p \in (DOMAIN ParamDefaults(h)) \cup (DOMAIN args \cap ParamNames(h)) |->
        IF p \in DOMAIN args THEN args[p] ELSE ParamDefaults(h)[p]]

\* (args || {}) for the cases that pass it, nothing for the others.
HandlerArgument(h, req) ==
    IF PassesArgs(h) /\ req.hasArgs THEN req.arguments ELSE NoFields

\* ------------------------------------------------------------------ handlers
\* A handler is a sequence of try blocks.  A block lists the execAsync calls it
\* makes in program order; `ok` is what the block produces when it runs to its
\* end, `fail` what its catch clause produces when a call rejects.

\* await execAsync(c), stdout bound to variable v ("" when it is discarded)
Cmd(c, v) == [cmd |-> c, var |-> v, grp |-> 0]

\* the same inside an inner try { } catch (e) {} of its own, numbered g
Try(c, v, g) == [cmd |-> c, var |-> v, grp |-> g]

Block(n, cmds, ok, fail) == [name |-> n, cmds |-> cmds, ok |-> ok, fail |-> fail]

\* a catch clause (or branch) that records nothing
Nothing == [absent |-> TRUE]

\* a call with no try around it: its rejection leaves the handler and rejects
\* the promise the request handler awaits
Propagates == [propagates |-> TRUE]

\* e.message in a catch clause, filled in with the command that rejected
EMessage == "e.message"

ErrorMessage(c) == "Command failed: " \o c

\* the value of a local variable bound to a command's stdout
Get(o, v) == IF v \in DOMAIN o THEN o[v] ELSE "undefined"

\* path.replace("~", process.env.HOME)
ExpandHome(path) == IF path = "~" THEN "$HOME" ELSE path

\* handleEmptyTrash with the try/catch dropped.
handleEmptyTrash_NoCatch(a, o) ==
    << Block("main",
             <<Cmd("du -sh ~/.Trash 2>/dev/null", "size")>>
                \o (IF a.dryRun THEN <<>> ELSE <<Cmd("rm -rf ~/.Trash/* 2>/dev/null", "")>>),
             IF a.dryRun
                THEN [trashSize |-> Get(o, "size"), note |-> "Run with dryRun=false to empty"]
                ELSE [status |-> "emptied", previousSize |-> Get(o, "size")],
             Propagates) >>

handleEmptyTrash(a, o) ==
    << Block("main",
             <<Cmd("du -sh ~/.Trash 2>/dev/null", "size")>>
                \o (IF a.dryRun THEN <<>> ELSE <<Cmd("rm -rf ~/.Trash/* 2>/dev/null", "")>>),
             IF a.dryRun
                THEN [trashSize |-> Get(o, "size"), note |-> "Run with dryRun=false to empty"]
                ELSE [status |-> "emptied", previousSize |-> Get(o, "size")],
             [error |-> EMessage]) >>

\* handleDockerCleanup with the prune attempted a second time in an inner try.
handleDockerCleanup_PruneRetried(a, o) ==
    << Block("main",
             <<Cmd("docker system df 2>/dev/null", "dfBefore")>>
                \o (IF a.dryRun THEN <<>>
                    ELSE <<Try("docker system prune -af 2>/dev/null", "pruneOutput", 1),
                           Try("docker system prune -af 2>/dev/null", "pruneOutput", 2)>>
                         \o (IF a.includeVolumes
                                THEN <<Cmd("docker volume prune -f 2>/dev/null", "volumeOutput")>>
                                ELSE <<>>)
                         \o <<Cmd("docker system df 2>/dev/null", "dfAfter")>>),
             IF a.dryRun
                THEN [currentUsage |-> Get(o, "dfBefore"), note |-> "Run with dryRun=false to clean"]
                ELSE [before |-> Get(o, "dfBefore"), after |-> Get(o, "dfAfter"),
                      pruneResult |-> Get(o, "pruneOutput"),
                      volumeResult |-> IF a.includeVolumes THEN Get(o, "volumeOutput")
                                       ELSE "skipped"],
             [error |-> EMessage, note |-> "Docker may not be running"]) >>

handleDockerCleanup(a, o) ==
    << Block("main",
             <<Cmd("docker system df 2>/dev/null", "dfBefore")>>
                \o (IF a.dryRun THEN <<>>
                    ELSE <<Cmd("docker system prune -af 2>/dev/null", "pruneOutput")>>
                         \o (IF a.includeVolumes
                                THEN <<Cmd("docker volume prune -f 2>/dev/null", "volumeOutput")>>
                                ELSE <<>>)
                         \o <<Cmd("docker system df 2>/dev/null", "dfAfter")>>),
             IF a.dryRun
                THEN [currentUsage |-> Get(o, "dfBefore"), note |-> "Run with dryRun=false to clean"]
                ELSE [before |-> Get(o, "dfBefore"), after |-> Get(o, "dfAfter"),
                      pruneResult |-> Get(o, "pruneOutput"),
                      volumeResult |-> IF a.includeVolumes THEN Get(o, "volumeOutput")
                                       ELSE "skipped"],
             [error |-> EMessage, note |-> "Docker may not be running"]) >>

\* The six target blocks of handleCleanupCaches, in program order.
CleanupCachesTargets(a, o) ==
    << Block("go",
             IF a.dryRun THEN <<Cmd("du -sh $(go env GOCACHE) 2>/dev/null", "go.stdout")>>
             ELSE <<Cmd("go clean -cache", "")>>,
             IF a.dryRun THEN [wouldClean |-> Get(o, "go.stdout")] ELSE [status |-> "cleaned"],
             [error |-> EMessage]),
       Block("brew",
             IF a.dryRun THEN <<Cmd("brew cleanup --dry-run 2>&1 | tail -5", "brew.stdout")>>
             ELSE <<Cmd("brew cleanup --prune=all 2>&1 | tail -3", "brew.stdout")>>,
             IF a.dryRun THEN [wouldClean |-> Get(o, "brew.stdout")]
             ELSE [status |-> Get(o, "brew.stdout")],
             [error |-> EMessage]),
       Block("npm",
             IF a.dryRun THEN <<Cmd("npm cache ls 2>/dev/null | wc -l", "npm.stdout")>>
             ELSE <<Cmd("npm cache clean --force 2>/dev/null", "")>>,
             IF a.dryRun THEN [cachedItems |-> Get(o, "npm.stdout")] ELSE [status |-> "cleaned"],
             [error |-> EMessage]),
       Block("pip",
             IF a.dryRun THEN <<Cmd("pip cache info 2>/dev/null | grep 'Size'", "pip.stdout")>>
             ELSE <<Cmd("pip cache purge 2>/dev/null", "")>>,
             IF a.dryRun THEN [info |-> Get(o, "pip.stdout")] ELSE [status |-> "cleaned"],
             [error |-> EMessage]),
       Block("chrome",
             IF a.dryRun
                THEN <<Cmd("du -sh $HOME/Library/Caches/Google/Chrome 2>/dev/null", "chrome.stdout")>>
                ELSE <<Cmd("rm -rf $HOME/Library/Caches/Google/Chrome/* 2>/dev/null", "")>>,
             IF a.dryRun THEN [size |-> Get(o, "chrome.stdout")] ELSE [status |-> "cleaned"],
             [error |-> EMessage]),
       Block("spotify",
             IF a.dryRun
                THEN <<Cmd("du -sh $HOME/Library/Caches/com.spotify.client 2>/dev/null", "spotify.stdout")>>
                ELSE <<Cmd("rm -rf $HOME/Library/Caches/com.spotify.client/* 2>/dev/null", "")>>,
             IF a.dryRun THEN [size |-> Get(o, "spotify.stdout")] ELSE [status |-> "cleaned"],
             [error |-> EMessage]) >>

\* const all = targets.includes("all"); if (all || targets.includes(t)) { ... }
TargetSelected(a, b) == "all" \in a.targets \/ b.name \in a.targets

\* handleCleanupCaches with one try around all the targets instead of one each.
handleCleanupCaches_OneTry(a, o) ==
    LET selected == SelectSeq(CleanupCachesTargets(a, o), LAMBDA b : TargetSelected(a, b))
        RECURSIVE calls(_)
        calls(k) == IF k > Len(selected) THEN <<>> ELSE selected[k].cmds \o calls(k + 1)
    IN  IF selected = <<>> THEN <<>>
        ELSE <<Block(selected[1].name, calls(1), selected[1].ok, [error |-> EMessage])>>

handleCleanupCaches(a, o) ==
    SelectSeq(CleanupCachesTargets(a, o), LAMBDA b : TargetSelected(a, b))

\* status: dryRun ? "would clean" : "cleaned"
CleanStatus(a) == IF a.dryRun THEN "would clean" ELSE "cleaned"

\* UnlessDryRun with the dryRun test dropped.
UnlessDryRun_Always(a, c) == <<Cmd(c, "")>>

\* if (!dryRun) await execAsync(c)
UnlessDryRun(a, c) == IF ~a.dryRun THEN <<Cmd(c, "")>> ELSE <<>>

\* { used: parts[2], available: parts[3], percentUsed: parts[4] } of a df line;
\* of the line only the available space (in G) is modelled as a value.
DfParts(avail) == [used |-> "parts[2]", available |-> avail, percentUsed |-> "parts[4]"]

\* Step 1, the before-state capture.
WorkflowBefore(a, o) ==
    Block("before", <<Cmd("df -h / | tail -1", "before.stdout")>>,
          DfParts(Get(o, "before.stdout")), [error |-> EMessage])

\* Steps 2..8, the cleanup steps that always run.
WorkflowSteps(a, o) ==
    << Block("Empty Trash",
             <<Cmd("du -sh ~/.Trash 2>/dev/null", "trashSize")>>
                \o UnlessDryRun(a, "rm -rf ~/.Trash/* 2>/dev/null"),
             [name |-> "Empty Trash", size |-> Get(o, "trashSize"), status |-> CleanStatus(a)],
             [name |-> "Empty Trash", status |-> "skipped", error |-> EMessage]),
       Block("Go Build Cache",
             <<Cmd("go env GOCACHE", "cachePath"), Cmd("du -sh $GOCACHE 2>/dev/null", "cacheSize")>>
                \o UnlessDryRun(a, "go clean -cache"),
             [name |-> "Go Build Cache", size |-> Get(o, "cacheSize"), status |-> CleanStatus(a)],
             [name |-> "Go Build Cache", status |-> "skipped",
              note |-> "Go not installed or cache empty"]),
       Block("Homebrew Cache",
             <<Cmd("du -sh ~/Library/Caches/Homebrew 2>/dev/null", "brewSize")>>
                \o (IF ~a.dryRun
                       THEN <<Cmd("brew cleanup --prune=all 2>&1 | grep -E 'freed|Removing' | tail -1",
                                  "brew.stdout")>>
                       ELSE <<>>),
             IF ~a.dryRun
                THEN [name |-> "Homebrew Cache", size |-> Get(o, "brewSize"),
                      status |-> "cleaned", detail |-> Get(o, "brew.stdout")]
                ELSE [name |-> "Homebrew Cache", size |-> Get(o, "brewSize"),
                      status |-> "would clean"],
             [name |-> "Homebrew Cache", status |-> "skipped"]),
       Block("Chrome Cache",
             <<Cmd("du -sh $HOME/Library/Caches/Google/Chrome 2>/dev/null", "chromeSize")>>
                \o UnlessDryRun(a, "rm -rf $HOME/Library/Caches/Google/Chrome/* 2>/dev/null"),
             [name |-> "Chrome Cache", size |-> Get(o, "chromeSize"), status |-> CleanStatus(a)],
             [name |-> "Chrome Cache", status |-> "skipped"]),
       Block("Spotify Cache",
             <<Cmd("du -sh $HOME/Library/Caches/com.spotify.client 2>/dev/null", "spotifySize")>>
                \o UnlessDryRun(a, "rm -rf $HOME/Library/Caches/com.spotify.client/* 2>/dev/null"),
             [name |-> "Spotify Cache", size |-> Get(o, "spotifySize"), status |-> CleanStatus(a)],
             [name |-> "Spotify Cache", status |-> "skipped"]),
       Block("npm Cache",
             UnlessDryRun(a, "npm cache clean --force 2>/dev/null"),
             [name |-> "npm Cache", status |-> CleanStatus(a)],
             [name |-> "npm Cache", status |-> "skipped"]),
       Block("pip Cache",
             UnlessDryRun(a, "pip cache purge 2>/dev/null"),
             [name |-> "pip Cache", status |-> CleanStatus(a)],
             [name |-> "pip Cache", status |-> "skipped"]) >>

\* WorkflowDocker with the volume prune not guarded by includeDockerVolumes.
WorkflowDocker_VolumesImplied(a, o) ==
    Block("Docker",
          <<Cmd("docker system df --format '{{.TotalCount}} {{.Size}}' 2>/dev/null", "dockerDf")>>
             \o (IF ~a.dryRun
                    THEN <<Cmd("docker system prune -af 2>/dev/null", ""),
                           Cmd("docker volume prune -f 2>/dev/null", "")>>
                    ELSE <<>>),
          [name |-> "Docker", detail |-> Get(o, "dockerDf"), status |-> CleanStatus(a),
           volumesCleaned |-> a.includeDockerVolumes],
          [name |-> "Docker", status |-> "skipped", note |-> "Docker not running"])

\* Step 9, inside if (includeDocker).
WorkflowDocker(a, o) ==
    Block("Docker",
          <<Cmd("docker system df --format '{{.TotalCount}} {{.Size}}' 2>/dev/null", "dockerDf")>>
             \o (IF ~a.dryRun
                    THEN <<Cmd("docker system prune -af 2>/dev/null", "")>>
                         \o (IF a.includeDockerVolumes
                                THEN <<Cmd("docker volume prune -f 2>/dev/null", "")>>
                                ELSE <<>>)
                    ELSE <<>>),
          [name |-> "Docker", detail |-> Get(o, "dockerDf"), status |-> CleanStatus(a),
           volumesCleaned |-> a.includeDockerVolumes],
          [name |-> "Docker", status |-> "skipped", note |-> "Docker not running"])

\* The after-state capture, inside if (!dryRun).
WorkflowAfter(a, o) ==
    Block("after", <<Cmd("df -h / | tail -1", "after.stdout")>>,
          DfParts(Get(o, "after.stdout")), [error |-> EMessage])

\* handleFullCleanupWorkflow with the Docker step placed before the cleanup steps.
handleFullCleanupWorkflow_DockerFirst(a, o) ==
    <<WorkflowBefore(a, o)>>
        \o (IF a.includeDocker THEN <<WorkflowDocker(a, o)>> ELSE <<>>)
        \o WorkflowSteps(a, o)
        \o (IF ~a.dryRun THEN <<WorkflowAfter(a, o)>> ELSE <<>>)

\* handleFullCleanupWorkflow with the before-state capture moved after the
\* cleanup steps.
handleFullCleanupWorkflow_CaptureLate(a, o) ==
    WorkflowSteps(a, o)
        \o <<WorkflowBefore(a, o)>>
        \o (IF a.includeDocker THEN <<WorkflowDocker(a, o)>> ELSE <<>>)
        \o (IF ~a.dryRun THEN <<WorkflowAfter(a, o)>> ELSE <<>>)

handleFullCleanupWorkflow(a, o) ==
    <<WorkflowBefore(a, o)>>
        \o WorkflowSteps(a, o)
        \o (IF a.includeDocker THEN <<WorkflowDocker(a, o)>> ELSE <<>>)
        \o (IF ~a.dryRun THEN <<WorkflowAfter(a, o)>> ELSE <<>>)

\* parseFloat(x.available?.replace("G", "") || 0): the available figure of a
\* capture, and 0 when the capture holds no such field (it failed).
AvailGB(capture) == IF "available" \in DOMAIN capture THEN capture.available ELSE 0

\* The records of the blocks named in `names`, in the order they were produced.
RecordsOf(recs, names) == SelectSeq(recs, LAMBDA r : r.block \in names)

StepNames == <<"Empty Trash", "Go Build Cache", "Homebrew Cache", "Chrome Cache",
               "Spotify Cache", "npm Cache", "pip Cache", "Docker">>

\* The workflow object as it stands once the blocks in recs have run: steps,
\* before and after as assigned so far, totalRecovered "calculating..." until
\* the after-state capture has succeeded.
WorkflowRecord(a, recs, finished) ==
    LET field(n) == RecordsOf(recs, {n})
        before == IF field("before") = <<>> THEN Nothing ELSE field("before")[1].rec
        after == IF field("after") # <<>> THEN field("after")[1].rec
                 ELSE IF finished /\ a.dryRun THEN [note |-> "Dry run - no changes made"]
                 ELSE Nothing
        steps == RecordsOf(recs, {StepNames[i] : i \in DOMAIN StepNames})
    IN  [steps |-> [i \in DOMAIN steps |-> steps[i].rec],
         dryRun |-> a.dryRun,
         before |-> before,
         after |-> after,
         totalRecovered |->
            IF "available" \in DOMAIN after
               THEN <<AvailGB(after) - AvailGB(before), "G">>
               ELSE <<"calculating...">>]

\* the number a listing command reported, 0 before it has run
Count(o, v) == IF v \in DOMAIN o THEN o[v] ELSE 0

\* dirs.slice(0, 10)
Slice10(n) == IF n > 10 THEN 10 ELSE n

\* for (const dir of dirs.slice(0, 10)) { try { du; stat; push } catch (e) {} }
NodeModulesLoop(o) ==
    [k \in 1..(2 * Slice10(Count(o, "dirs"))) |->
        IF k % 2 = 1
           THEN Try("du -sh dir" \o ToString((k + 1) \div 2) \o " 2>/dev/null",
                    "size" \o ToString((k + 1) \div 2), (k + 1) \div 2)
           ELSE Try("stat -f %Sm -t %Y-%m-%d dir" \o ToString(k \div 2) \o " 2>/dev/null",
                    "mtime" \o ToString(k \div 2), k \div 2)]

\* for (const ver of versions) { try { du; push } catch (e) {} }
PyenvLoop(o) ==
    [k \in 1..Count(o, "allVersions") |->
        Try("du -sh ~/.pyenv/versions/ver" \o ToString(k) \o " 2>/dev/null",
            "versize" \o ToString(k), k)]

handleDeveloperCleanup(a, o) ==
    (IF a.cleanNodeModules
        THEN << Block("nodeModules",
                      <<Cmd("find ~ -name node_modules -type d -prune 2>/dev/null | head -20", "dirs")>>
                         \o NodeModulesLoop(o),
                      [found |-> Count(o, "dirs"),
                       analyzed |-> {i \in 1..Slice10(Count(o, "dirs")) :
                                        ("mtime" \o ToString(i)) \in DOMAIN o},
                       dryRun |-> a.dryRun],
                      [error |-> EMessage]) >>
        ELSE <<>>)
    \o (IF a.cleanXcode
        THEN << Block("xcodeDerivedData",
                      <<Cmd("du -sh $HOME/Library/Developer/Xcode/DerivedData 2>/dev/null", "size")>>
                         \o UnlessDryRun(a, "rm -rf $HOME/Library/Developer/Xcode/DerivedData/* 2>/dev/null"),
                      [size |-> Get(o, "size"), status |-> CleanStatus(a)],
                      [status |-> "skipped", note |-> "Xcode not installed or empty"]),
                Block("xcodeArchives",
                      <<Cmd("du -sh $HOME/Library/Developer/Xcode/Archives 2>/dev/null", "archives.size")>>,
                      [size |-> Get(o, "archives.size"),
                       note |-> "Review before deleting - contains app builds"],
                      Nothing) >>
        ELSE <<>>)
    \o (IF a.cleanPyenvOldVersions
        THEN << Block("pyenvVersions",
                      <<Cmd("pyenv version-name 2>/dev/null", "currentVersion"),
                        Cmd("ls ~/.pyenv/versions/ 2>/dev/null", "allVersions")>>
                         \o PyenvLoop(o),
                      [current |-> Get(o, "currentVersion"),
                       versions |-> {i \in 1..Count(o, "allVersions") :
                                        ("versize" \o ToString(i)) \in DOMAIN o},
                       note |-> "Run 'pyenv uninstall VERSION' to remove"],
                      [status |-> "skipped", note |-> "pyenv not installed"]) >>
        ELSE <<>>)

handleDiskUsage(a, o) ==
    << Block("main",
             <<Cmd("dust -d " \o ToString(a.depth) \o " -n 20 -c " \o ExpandHome(a.path)
                      \o " 2>/dev/null || du -h -d " \o ToString(a.depth) \o " "
                      \o ExpandHome(a.path) \o " 2>/dev/null | sort -hr | head -20", "stdout"),
               Cmd("df -h / | tail -1", "dfOutput")>>,
             [diskUsage |-> Get(o, "stdout"), systemStatus |-> Get(o, "dfOutput")],
             [error |-> EMessage]) >>

\* What `du -sh dir || echo "Unable to determine size"` prints: a size as du
\* writes it, a number followed by a unit letter, or the fallback text.
DuUnits == {"K", "M", "G", "T"}

DuNumbers == {5, 10, 11, 20, 21, 25, 500}

DuSizes == [num : DuNumbers, unit : DuUnits] \cup {[text |-> "Unable to determine size"]}

\* parseFloat(cacheSize.split(/\s+/)[0].replace("G", "")) || 0: parseFloat reads
\* the leading number and stops at the first character that is not part of
\* one, so the unit letter, removed or not, plays no part; text with no leading
\* number gives NaN, and NaN || 0 is 0.
ParseSizeGB(size) == IF "num" \in DOMAIN size THEN size.num ELSE 0

\* the if / else if / else on sizeGB
Recommendation(sizeGB) ==
    IF sizeGB > 20
       THEN "CRITICAL: Cache is very large. Run 'go clean -cache' to reclaim space."
    ELSE IF sizeGB > 10
       THEN "WARNING: Cache is getting large. Consider cleaning with 'go clean -cache'."
    ELSE "Cache size is reasonable."

handleGoCacheStatus(a, o) ==
    << Block("main",
             <<Cmd("go env GOCACHE", "cachePath"),
               Cmd("du -sh $GOCACHE 2>/dev/null || echo Unable to determine size", "cacheSize")>>,
             [cachePath |-> Get(o, "cachePath"), cacheSize |-> Get(o, "cacheSize"),
              recommendation |-> IF "cacheSize" \in DOMAIN o
                                    THEN Recommendation(ParseSizeGB(o.cacheSize))
                                    ELSE "undefined"],
             [error |-> EMessage, note |-> "Go may not be installed"]) >>

handleMemoryStatus(a, o) ==
    << Block("main",
             <<Cmd("vm_stat", "vmStat"),
               Cmd("memory_pressure 2>/dev/null || echo 'memory_pressure command not available'",
                   "memPressure"),
               Cmd("ps aux --sort=-%mem | head -10", "topProcesses")>>,
             [memoryPressure |-> Get(o, "memPressure"), topProcesses |-> Get(o, "topProcesses"),
              vmStats |-> Get(o, "vmStat")],
             [error |-> EMessage]) >>

\* Five checks, each in a try with an empty catch; a check pushes a
\* recommendation when its reading is over the threshold.
handleCleanupRecommendations(a, o) ==
    LET check(n, cmds, v) ==
            Block(n, cmds, IF Get(o, v) = "over" THEN [target |-> n] ELSE Nothing, Nothing)
    IN  << check("disk", <<Cmd("df -h / | tail -1", "disk.stdout")>>, "disk.stdout"),
           check("go-cache", <<Cmd("go env GOCACHE", "cachePath"),
                               Cmd("du -s $GOCACHE 2>/dev/null", "go.stdout")>>, "go.stdout"),
           check("trash", <<Cmd("du -s ~/.Trash 2>/dev/null", "trash.stdout")>>, "trash.stdout"),
           check("docker", <<Cmd("docker system df --format '{{.Size}}' 2>/dev/null | head -1",
                                 "docker.stdout")>>, "docker.stdout"),
           check("homebrew-cache", <<Cmd("du -s ~/Library/Caches/Homebrew 2>/dev/null",
                                         "brew.stdout")>>, "brew.stdout") >>

LibraryDirs == <<"Caches", "Application Support", "Containers", "Developer", "Fonts",
                 "Mail", "Messages">>

KnownLargeCaches == <<"Go Build", "Homebrew", "Google Chrome", "Xcode DerivedData">>

handleAnalyzeLibrary(a, o) ==
    [i \in DOMAIN LibraryDirs |->
        Block(LibraryDirs[i],
              <<Cmd("du -sh $HOME/Library/" \o LibraryDirs[i] \o " 2>/dev/null",
                    "size." \o LibraryDirs[i])>>,
              [size |-> Get(o, "size." \o LibraryDirs[i])], [size |-> "N/A"])]
    \o << Block("topCaches",
                <<Cmd("du -sh ~/Library/Caches/*/ 2>/dev/null | sort -hr | head -10", "topCaches")>>,
                [topCaches |-> Get(o, "topCaches")], Nothing) >>
    \o [i \in DOMAIN KnownLargeCaches |->
        Block(KnownLargeCaches[i],
              <<Cmd("du -sh " \o KnownLargeCaches[i] \o " 2>/dev/null",
                    "known." \o KnownLargeCaches[i])>>,
              [name |-> KnownLargeCaches[i], size |-> Get(o, "known." \o KnownLargeCaches[i])],
              Nothing)]

handleCpuUsage(a, o) ==
    << Block("main",
             <<Cmd("sysctl -n vm.loadavg", "loadAvg"),
               Cmd("top -l 1 -n 0 | grep 'CPU usage'", "cpuInfo"),
               Cmd("ps aux -r | head -" \o ToString(a.topN + 1), "topProcesses"),
               Cmd("sysctl -n hw.ncpu", "coreCount"),
               Cmd("sysctl -n hw.perflevel0.physicalcpu 2>/dev/null || echo 'N/A'", "perfCores"),
               Cmd("sysctl -n hw.perflevel1.physicalcpu 2>/dev/null || echo 'N/A'", "effCores")>>,
             [loadAverages |-> Get(o, "loadAvg"), cpuUsage |-> Get(o, "cpuInfo"),
              totalCores |-> Get(o, "coreCount"), performanceCores |-> Get(o, "perfCores"),
              efficiencyCores |-> Get(o, "effCores"), topProcesses |-> Get(o, "topProcesses")],
             [error |-> EMessage]) >>

handleThermalStatus(a, o) ==
    << Block("main",
             <<Cmd("pmset -g therm 2>/dev/null || echo 'Thermal info not available'", "thermalState"),
               Try("osx-cpu-temp 2>/dev/null", "temperature", 1)>>,
             [thermalState |-> Get(o, "thermalState"),
              temperature |-> IF "temperature" \in DOMAIN o THEN o.temperature
                              ELSE "Temperature monitoring requires additional tools (e.g., osx-cpu-temp)"],
             [error |-> EMessage]) >>

\* What system_profiler SPPowerDataType prints, as far as the health note
\* depends on it: a "Maximum Capacity: n%" line, or no such line.
BatteryInfos == [capacity : 0..MaxCapacityPercent] \cup {[nocapacity |-> TRUE]}

\* batteryInfo.match(/Maximum Capacity: (\d+%)/)?.[1] || "N/A"
MaxCapacity(info) ==
    IF "capacity" \in DOMAIN info THEN ToString(info.capacity) \o "%" ELSE "N/A"

\* HealthNote with the two comparisons written <= instead of <.
HealthNote_Inclusive(info) ==
    IF "capacity" \in DOMAIN info /\ info.capacity <= 80
       THEN "Battery capacity significantly degraded. Consider replacement."
    ELSE IF "capacity" \in DOMAIN info /\ info.capacity <= 90
       THEN "Battery showing some wear."
    ELSE "Battery health good."

\* parseInt(maxCapacity) < 80 ? ... : parseInt(maxCapacity) < 90 ? ... : ...;
\* parseInt("n%") is n, parseInt("N/A") is NaN and NaN is below nothing.
HealthNote(info) ==
    IF "capacity" \in DOMAIN info /\ info.capacity < 80
       THEN "Battery capacity significantly degraded. Consider replacement."
    ELSE IF "capacity" \in DOMAIN info /\ info.capacity < 90
       THEN "Battery showing some wear."
    ELSE "Battery health good."

handleBatteryHealth(a, o) ==
    << Block("main",
             <<Cmd("system_profiler SPPowerDataType 2>/dev/null", "batteryInfo"),
               Cmd("pmset -g batt", "pmsetOutput")>>,
             IF "batteryInfo" \in DOMAIN o
                THEN [chargeLevel |-> Get(o, "pmsetOutput"),
                      maxCapacity |-> MaxCapacity(o.batteryInfo),
                      healthNote |-> HealthNote(o.batteryInfo)]
                ELSE [chargeLevel |-> Get(o, "pmsetOutput")],
             [error |-> EMessage]) >>

handleSystemInfo(a, o) ==
    << Block("main",
             <<Cmd("sw_vers", "osVersion"), Cmd("sysctl -n hw.model", "model"),
               Cmd("sysctl -n machdep.cpu.brand_string 2>/dev/null || echo 'Apple Silicon'", "chip"),
               Cmd("sysctl -n hw.memsize", "memory"), Cmd("uptime", "uptime"),
               Cmd("df -h / | tail -1", "disk"), Cmd("whoami", "user"),
               Cmd("hostname", "hostname")>>,
             [macOS |-> Get(o, "osVersion"), model |-> Get(o, "model"), chip |-> Get(o, "chip"),
              memoryGB |-> Get(o, "memory"), uptime |-> Get(o, "uptime"),
              disk |-> Get(o, "disk"), currentUser |-> Get(o, "user"),
              hostname |-> Get(o, "hostname")],
             [error |-> EMessage]) >>

\* sortFlag: "-r" unless sortBy is "memory" ("-m") or "name" ("")
SortFlag(sortBy) ==
    IF sortBy = "memory" THEN "-m" ELSE IF sortBy = "name" THEN "" ELSE "-r"

\* The lines ps aux prints: the column-header line, then one row per process.
\* Of a row the model keeps the pid and whether the row matches the filter of the
\* request (grep -i); the header line does not match it.
HeaderLine == [text |-> "USER PID %CPU %MEM VSZ RSS TT STAT STARTED TIME COMMAND"]

\* the one element of "".split("\n")
EmptyLine == [text |-> ""]

ProcessRows(n) ==
    {rows \in [1..n -> [pid : 1..n, matches : BOOLEAN]] : \A k \in 1..n : rows[k].pid = k}

\* the process tables ps may find
ProcessTables == UNION {ProcessRows(n) : n \in 0..MaxProcs}

\* head -n
HeadLines(lines, n) == IF Len(lines) <= n THEN lines ELSE SubSeq(lines, 1, n)

\* What the shell prints for `ps aux | head -n` and for
\* `ps aux | grep -i filter | head -n` when ps finds the processes in rows.
PsPipeline(rows, grep, n) ==
    HeadLines(IF grep THEN SelectSeq(rows, LAMBDA r : r.matches) ELSE <<HeaderLine>> \o rows, n)

\* stdout.trim().split("\n")
SplitLines(out) == IF out = <<>> THEN <<EmptyLine>> ELSE out

\* the ps command line, with what the model needs of it to run the pipeline
PsCmd(c, v, grep, n) == [cmd |-> c, var |-> v, grp |-> 0, grep |-> grep, head |-> n]

handleProcessList(a, o) ==
    << Block("main",
             << IF a.filter # ""
                   THEN PsCmd("ps aux " \o SortFlag(a.sortBy) \o " | grep -i " \o a.filter
                                 \o " | head -" \o ToString(a.limit),
                              "stdout", TRUE, a.limit)
                   ELSE PsCmd("ps aux " \o SortFlag(a.sortBy) \o " | head -"
                                 \o ToString(a.limit + 1),
                              "stdout", FALSE, a.limit + 1) >>,
             IF "stdout" \in DOMAIN o
                THEN [sortedBy |-> a.sortBy, header |-> SplitLines(o.stdout)[1],
                      processes |-> Tail(SplitLines(o.stdout))]
                ELSE [sortedBy |-> a.sortBy],
             [error |-> EMessage]) >>

\* the -9 / -15 of the kill command line
Signal(a) == IF a.force THEN "-9" ELSE "-15"

SignalName(a) == IF a.force THEN "SIGKILL" ELSE "SIGTERM"

\* if (pid): a number is truthy unless it is 0
PidGiven(a) == "pid" \in DOMAIN a /\ a.pid # 0

\* else if (name): a string is truthy unless it is empty
NameGiven(a) == "name" \in DOMAIN a /\ a.name # ""

\* handleKillProcess with the final else branch missing: with neither pid nor
\* name the name branch runs on the undefined name.
handleKillProcess_NoGuard(a, o) ==
    LET name == IF "name" \in DOMAIN a THEN a.name ELSE "undefined"
    IN  << Block("main",
                 IF PidGiven(a) THEN <<Cmd("kill " \o Signal(a) \o " " \o ToString(a.pid), "")>>
                 ELSE <<Cmd("pgrep -f " \o name \o " | head -1", "foundPid")>>
                      \o (IF "foundPid" \in DOMAIN o /\ o.foundPid # ""
                             THEN <<Cmd("kill " \o Signal(a) \o " " \o o.foundPid, "")>>
                             ELSE <<>>),
                 IF PidGiven(a)
                    THEN [success |-> TRUE, killed |-> ToString(a.pid), signal |-> SignalName(a)]
                 ELSE IF Get(o, "foundPid") = ""
                    THEN [success |-> FALSE, error |-> "No process found matching: " \o name]
                 ELSE [success |-> TRUE, killed |-> Get(o, "foundPid"), signal |-> SignalName(a)],
                 [success |-> FALSE, error |-> EMessage]) >>

handleKillProcess(a, o) ==
    << Block("main",
             IF PidGiven(a) THEN <<Cmd("kill " \o Signal(a) \o " " \o ToString(a.pid), "")>>
             ELSE IF NameGiven(a)
                THEN <<Cmd("pgrep -f " \o a.name \o " | head -1", "foundPid")>>
                     \o (IF "foundPid" \in DOMAIN o /\ o.foundPid # ""
                            THEN <<Cmd("kill " \o Signal(a) \o " " \o o.foundPid, "")>>
                            ELSE <<>>)
             ELSE <<>>,
             IF PidGiven(a)
                THEN [success |-> TRUE, killed |-> ToString(a.pid), signal |-> SignalName(a)]
             ELSE IF NameGiven(a)
                THEN IF Get(o, "foundPid") = ""
                        THEN [success |-> FALSE, error |-> "No process found matching: " \o a.name]
                        ELSE [success |-> TRUE, killed |-> Get(o, "foundPid"), signal |-> SignalName(a)]
             ELSE [success |-> FALSE, error |-> "Must provide either pid or name"],
             [success |-> FALSE, error |-> EMessage]) >>

handleStartupItems(a, o) ==
    << Block("main",
             <<Cmd("ls -la ~/Library/LaunchAgents/*.plist 2>/dev/null || echo ''", "userAgents"),
               Cmd("launchctl list 2>/dev/null | head -30", "loadedAgents"),
               Cmd("ls /Library/LaunchAgents/*.plist 2>/dev/null | head -10 || echo ''", "systemAgents")>>,
             [launchAgents |-> Get(o, "userAgents"), loadedAgents |-> Get(o, "loadedAgents"),
              systemAgents |-> Get(o, "systemAgents")],
             [error |-> EMessage]) >>

handleNetworkStatus(a, o) ==
    << Block("main",
             <<Cmd("ifconfig | grep -E '^[a-z]|inet ' | head -20", "interfaces"),
               Try("airport -I 2>/dev/null | grep -E 'SSID|BSSID|channel|RSSI'", "wifi", 1),
               Try("curl -s --max-time 2 ifconfig.me", "externalIp", 2),
               Cmd("scutil --dns | grep 'nameserver' | head -5", "dns"),
               Cmd("netstat -an | grep ESTABLISHED | wc -l", "connCount")>>,
             [interfaces |-> Get(o, "interfaces"),
              wifi |-> IF "wifi" \in DOMAIN o THEN o.wifi ELSE "Not connected to WiFi",
              externalIp |-> IF "externalIp" \in DOMAIN o THEN o.externalIp
                             ELSE "Unable to determine",
              dnsServers |-> Get(o, "dns"), activeConnections |-> Get(o, "connCount")],
             [error |-> EMessage]) >>

\* The try blocks of handler h, called with parameters a, given the stdout o its
\* earlier commands have produced.
Blocks(h, a, o) ==
    CASE h = "handleDiskUsage" -> handleDiskUsage(a, o)
      [] h = "handleGoCacheStatus" -> handleGoCacheStatus(a, o)
      [] h = "handleCleanupCaches" -> handleCleanupCaches(a, o)
      [] h = "handleDockerCleanup" -> handleDockerCleanup(a, o)
      [] h = "handleMemoryStatus" -> handleMemoryStatus(a, o)
      [] h = "handleCleanupRecommendations" -> handleCleanupRecommendations(a, o)
      [] h = "handleEmptyTrash" -> handleEmptyTrash(a, o)
      [] h = "handleFullCleanupWorkflow" -> handleFullCleanupWorkflow(a, o)
      [] h = "handleAnalyzeLibrary" -> handleAnalyzeLibrary(a, o)
      [] h = "handleDeveloperCleanup" -> handleDeveloperCleanup(a, o)
      [] h = "handleCpuUsage" -> handleCpuUsage(a, o)
      [] h = "handleThermalStatus" -> handleThermalStatus(a, o)
      [] h = "handleBatteryHealth" -> handleBatteryHealth(a, o)
      [] h = "handleSystemInfo" -> handleSystemInfo(a, o)
      [] h = "handleProcessList" -> handleProcessList(a, o)
      [] h = "handleKillProcess" -> handleKillProcess(a, o)
      [] h = "handleStartupItems" -> handleStartupItems(a, o)
      [] h = "handleNetworkStatus" -> handleNetworkStatus(a, o)

\* ------------------------------------------------------------------ results

\* the records of recs as a mapping from block name to record, without the
\* blocks that recorded nothing
Keyed(recs) ==
    LET kept == SelectSeq(recs, LAMBDA r : r.rec # Nothing)
    IN  [n \in {kept[i].block : i \in DOMAIN kept} |->
            (CHOOSE r \in {kept[i] : i \in DOMAIN kept} : r.block = n).rec]

\* the records of recs as a list, without the blocks that recorded nothing
Listed(recs) ==
    LET kept == SelectSeq(recs, LAMBDA r : r.rec # Nothing)
    IN  [i \in DOMAIN kept |-> kept[i].rec]

\* What handler h returns once its blocks have produced recs.
Result(h, a, recs) ==
    CASE h = "handleFullCleanupWorkflow" -> WorkflowRecord(a, recs, TRUE)
      [] h = "handleCleanupCaches" -> [dryRun |-> a.dryRun, results |-> Keyed(recs)]
      [] h = "handleDeveloperCleanup" -> Keyed(recs)
      [] h = "handleCleanupRecommendations" ->
            [recommendations |->
                IF Listed(recs) # <<>> THEN Listed(recs)
                ELSE <<[message |-> "No immediate cleanup needed"]>>]
      [] h = "handleAnalyzeLibrary" ->
            [categories |-> Keyed(RecordsOf(recs, {LibraryDirs[i] : i \in DOMAIN LibraryDirs})),
             topCaches |-> Listed(RecordsOf(recs, {"topCaches"})),
             knownLargeCaches |->
                Listed(RecordsOf(recs, {KnownLargeCaches[i] : i \in DOMAIN KnownLargeCaches}))]
      [] OTHER -> recs[1].rec

\* ------------------------------------------------------------------ environment

\* the available space, in G, that df may report
DfAvailable == {50, 80}

\* What a command that exits with status 0 may print, as far as the handler's
\* control flow and arithmetic depend on it; any other output is opaque.
Stdout(h, c) ==
    CASE h = "handleFullCleanupWorkflow" /\ c.var \in {"before.stdout", "after.stdout"} ->
            DfAvailable
      [] h = "handleDeveloperCleanup" /\ c.var \in {"dirs", "allVersions"} -> 0..MaxFound
      [] h = "handleGoCacheStatus" /\ c.var = "cacheSize" -> DuSizes
      [] h = "handleBatteryHealth" /\ c.var = "batteryInfo" -> BatteryInfos
      [] h = "handleProcessList" ->
            {PsPipeline(rows, c.grep, c.head) : rows \in ProcessTables}
      [] h = "handleKillProcess" /\ c.var = "foundPid" -> {"", "4242"}
      [] h = "handleCleanupRecommendations" /\ c.var # "cachePath" -> {"under", "over"}
      [] OTHER -> {"stdout: " \o c.cmd}

\* ------------------------------------------------------------------ execution

\* the catch clause's record, e.message filled in
Caught(rec, c) ==
    IF "error" \in DOMAIN rec /\ rec # Nothing THEN [rec EXCEPT !.error = ErrorMessage(c.cmd)]
    ELSE rec

\* o with variable v bound to stdout s
Bind(o, v, s) ==
    IF v = "" THEN o
    ELSE [x \in DOMAIN o \cup {v} |-> IF x = v THEN s ELSE o[x]]

\* The synchronous code up to the next await: a block that has no call left
\* pushes its record and the next block starts; the handler is over when no
\* block is left.
RECURSIVE Settle(_, _, _, _, _, _)
Settle(h, a, o, recs, b, p) ==
    LET plan == Blocks(h, a, o)
    IN  IF b > Len(plan) THEN [blk |-> b, pos |-> 1, records |-> recs, over |-> TRUE]
        ELSE IF p > Len(plan[b].cmds)
            THEN Settle(h, a, o, Append(recs, [block |-> plan[b].name, rec |-> plan[b].ok]),
                        b + 1, 1)
        ELSE [blk |-> b, pos |-> p, records |-> recs, over |-> FALSE]

\* The position after the inner try of the call at position p of block b: the
\* calls left in that try are skipped.
AfterTry(cmds, p) ==
    LET later == {q \in (p + 1)..Len(cmds) : cmds[q].grp # cmds[p].grp}
    IN  IF later = {} THEN Len(cmds) + 1 ELSE Min(later)

NoResponse == [kind |-> "none"]

Payload(h, a, recs) == [kind |-> "payload", result |-> Result(h, a, recs)]

NoRequest == [name |-> "", hasArgs |-> FALSE, arguments |-> NoFields]

NoPrev == [present |-> FALSE]

NoOther == [present |-> FALSE]

\* no invocation has started
Idle == request = NoRequest

\* the handler is suspended on an execAsync call
Running == request # NoRequest /\ response = NoResponse

\* the call the handler is suspended on
Current == Blocks(handler, eff, outs)[blk].cmds[pos]

Site == <<Blocks(handler, eff, outs)[blk].name, Current.cmd>>

\* ------------------------------------------------------------------ requests

\* The argument values a request may carry for each declared parameter.
ArgValues(name) ==
    CASE name = "mac_disk_usage" -> [path |-> {"~", "/tmp"}, depth |-> {1, 2}]
      [] name = "mac_cleanup_caches" ->
            [targets |-> {t \in SUBSET {"go", "brew", "npm", "pip", "chrome", "spotify",
                                        "all", "bogus"} : Cardinality(t) <= MaxTargets},
             dryRun |-> BOOLEAN]
      [] name = "mac_cleanup_docker" -> [includeVolumes |-> BOOLEAN, dryRun |-> BOOLEAN]
      [] name = "mac_empty_trash" -> [dryRun |-> BOOLEAN]
      [] name = "mac_full_cleanup_workflow" ->
            [includeDocker |-> BOOLEAN, includeDockerVolumes |-> BOOLEAN, dryRun |-> BOOLEAN]
      [] name = "mac_developer_cleanup" ->
            [cleanNodeModules |-> BOOLEAN, cleanXcode |-> BOOLEAN,
             cleanPyenvOldVersions |-> BOOLEAN, dryRun |-> BOOLEAN]
      [] name = "mac_cpu_usage" -> [topN |-> {10, 5}]
      [] name = "mac_process_list" ->
            [sortBy |-> {"cpu", "memory", "name", "bogus"}, limit |-> {20, 1},
             filter |-> {"", "node"}]
      [] name = "mac_kill_process" ->
            [pid |-> {0, 4242}, name |-> {"", "node"}, force |-> BOOLEAN]
      [] name = "mac_startup_items" -> [showDisabled |-> BOOLEAN]
      [] OTHER -> NoFields

\* r with field p set to v
With(r, p, v) == [x \in DOMAIN r \cup {p} |-> IF x = p THEN v ELSE r[x]]

\* Every argument record over the parameters in D: each parameter either
\* absent or one of its values.
RECURSIVE ArgRecords(_, _)
ArgRecords(vals, D) ==
    IF D = {} THEN {NoFields}
    ELSE LET p == CHOOSE x \in D : TRUE
             rest == ArgRecords(vals, D \ {p})
         IN  rest \cup {With(r, p, v) : r \in rest, v \in vals[p]}

\* The argument records of the requests: no parameter given, one given, or all.
RequestArguments(name) ==
    {r \in ArgRecords(ArgValues(name), DOMAIN ArgValues(name)) :
        Cardinality(DOMAIN r) \in {0, 1, Cardinality(DOMAIN ArgValues(name))}}

RequestNames == ToolNames \cup {SwitchCases[i] : i \in DOMAIN SwitchCases}
                    \cup {"mac_unknown_tool"}

\* ------------------------------------------------------------------ actions

Init ==
    /\ request = NoRequest
    /\ handler = "none"
    /\ eff = NoFields
    /\ blk = 1
    /\ pos = 1
    /\ issued = <<>>
    /\ failed = {}
    /\ outs = NoFields
    /\ records = <<>>
    /\ response = NoResponse
    /\ env = NoFields
    /\ prev = NoPrev
    /\ other = NoOther

\* The CallToolRequestSchema handler up to the first await of the selected
\* handler: the switch on the name, the destructuring of (args || {}), and the
\* handler's code before its first execAsync call.  The default branch throws.
Dispatch(req) ==
    LET h == HandlerOf(req.name)
        a == Destructure(h, HandlerArgument(h, req))
        st == Settle(h, a, NoFields, <<>>, 1, 1)
    IN  /\ request' = req
        /\ handler' = h
        /\ issued' = <<>>
        /\ failed' = {}
        /\ outs' = NoFields
        /\ IF h = "none"
              THEN /\ eff' = NoFields
                   /\ blk' = 1
                   /\ pos' = 1
                   /\ records' = <<>>
                   /\ response' = [kind |-> "throw", message |-> "Unknown tool: " \o req.name]
              ELSE /\ eff' = a
                   /\ blk' = st.blk
                   /\ pos' = st.pos
                   /\ records' = st.records
                   /\ response' = IF st.over THEN Payload(h, a, st.records) ELSE NoResponse

\* A call-tool request arrives.
Call ==
    /\ Idle
    /\ \E name \in RequestNames :
       \E hasArgs \in BOOLEAN :
       \E args \in (IF hasArgs THEN RequestArguments(name) ELSE {NoFields}) :
          Dispatch([name |-> name, hasArgs |-> hasArgs, arguments |-> args])
    /\ env' = NoFields
    /\ prev' = NoPrev
    /\ other' = NoOther

\* The command the handler awaits exits with status 0 and prints s; the handler
\* runs on to its next await, or returns.
ExecOk ==
    /\ Running
    /\ \E s \in Stdout(handler, Current) :
          LET o == Bind(outs, Current.var, s)
              st == Settle(handler, eff, o, records, blk, pos + 1)
          IN  /\ Site \in DOMAIN env => env[Site] = [ok |-> TRUE, stdout |-> s]
              /\ env' = With(env, Site, [ok |-> TRUE, stdout |-> s])
              /\ outs' = o
              /\ blk' = st.blk
              /\ pos' = st.pos
              /\ records' = st.records
              /\ response' = IF st.over THEN Payload(handler, eff, st.records) ELSE NoResponse
    /\ issued' = Append(issued, Current.cmd)
    /\ UNCHANGED <<request, handler, eff, failed, prev, other>>

\* The command the handler awaits rejects (non-zero exit, missing utility, a
\* kill by timeout): the enclosing catch clause runs, then the code after it.
\* With no enclosing try the rejection propagates through the handler and the
\* request handler, which has no try of its own.
ExecFail ==
    /\ Running
    /\ Cardinality(failed) < MaxFailures
    /\ Site \in DOMAIN env => env[Site] = [ok |-> FALSE]
    /\ LET plan == Blocks(handler, eff, outs)
           st == IF Current.grp = 0
                    THEN Settle(handler, eff, outs,
                                Append(records, [block |-> plan[blk].name,
                                                 rec |-> Caught(plan[blk].fail, Current)]),
                                blk + 1, 1)
                    ELSE Settle(handler, eff, outs, records, blk, AfterTry(plan[blk].cmds, pos))
       IN  IF Current.grp = 0 /\ plan[blk].fail = Propagates
              THEN /\ UNCHANGED <<blk, pos, records>>
                   /\ response' = [kind |-> "throw", message |-> ErrorMessage(Current.cmd)]
              ELSE /\ blk' = st.blk
                   /\ pos' = st.pos
                   /\ records' = st.records
                   /\ response' = IF st.over THEN Payload(handler, eff, st.records)
                                  ELSE NoResponse
    /\ env' = With(env, Site, [ok |-> FALSE])
    /\ issued' = Append(issued, Current.cmd)
    /\ failed' = failed \cup {Site}
    /\ UNCHANGED <<request, handler, eff, outs, prev, other>>

\* The request handler's return (or throw) reaches the transport; the
\* invocation leaves nothing behind.
Respond ==
    /\ response # NoResponse
    /\ ~other.present
    /\ request' = NoRequest
    /\ handler' = "none"
    /\ eff' = NoFields
    /\ blk' = 1
    /\ pos' = 1
    /\ issued' = <<>>
    /\ failed' = {}
    /\ outs' = NoFields
    /\ records' = <<>>
    /\ response' = NoResponse
    /\ env' = NoFields
    /\ prev' = NoPrev
    /\ other' = NoOther

Next == Call \/ ExecOk \/ ExecFail \/ Respond

Spec == Init /\ [][Next]_vars

\* The invocation that has just returned, kept for comparison with the next.
Returned(how) ==
    [present |-> TRUE, repeat |-> how, request |-> request, issued |-> issued,
     response |-> response]

\* A client that has run a tool for real calls it again with the same
\* arguments, now as a dry run, while the external commands behave as before.
RepeatAsDryRun ==
    /\ response.kind = "payload"
    /\ ~prev.present
    /\ "dryRun" \in DOMAIN eff
    /\ ~eff.dryRun
    /\ Dispatch([name |-> request.name, hasArgs |-> TRUE,
                 arguments |-> With(request.arguments, "dryRun", TRUE)])
    /\ prev' = Returned("dryRun")
    /\ env' = env
    /\ other' = other

\* A client that has called a tool with no arguments calls it again passing
\* the default its inputSchema declares for every parameter, while the external
\* commands behave as before.
RepeatWithDefaults ==
    /\ response.kind = "payload"
    /\ ~prev.present
    /\ DOMAIN request.arguments = {}
    /\ Dispatch([name |-> request.name, hasArgs |-> TRUE,
                 arguments |-> SchemaDefaults(request.name)])
    /\ prev' = Returned("defaults")
    /\ env' = env
    /\ other' = other

NextRepeat == Next \/ RepeatAsDryRun \/ RepeatWithDefaults

SpecRepeat == Init /\ [][NextRepeat]_vars

\* The request handler is an async function registered with the server and
\* index.js holds no queue or lock: a call-tool request that arrives while an
\* invocation is suspended on an await starts an invocation of its own, which
\* runs up to its first await.  Here the client sends the same request again.
CallOverlapping ==
    /\ Running
    /\ ~other.present
    /\ LET st == Settle(handler, eff, NoFields, <<>>, 1, 1)
       IN  other' = [present |-> TRUE, request |-> request, handler |-> handler, eff |-> eff,
                     blk |-> st.blk, pos |-> st.pos, outs |-> NoFields,
                     records |-> st.records, issued |-> <<>>,
                     response |-> IF st.over THEN Payload(handler, eff, st.records)
                                  ELSE NoResponse]
    /\ UNCHANGED <<request, handler, eff, blk, pos, issued, failed, outs, records, response,
                   env, prev>>

\* the call the second invocation is suspended on
OtherCurrent == Blocks(other.handler, other.eff, other.outs)[other.blk].cmds[other.pos]

OtherSite == <<Blocks(other.handler, other.eff, other.outs)[other.blk].name, OtherCurrent.cmd>>

\* The command the second invocation awaits exits with status 0; that
\* invocation runs on to its next await, or returns.
OtherExecOk ==
    /\ other.present
    /\ other.response = NoResponse
    /\ \E s \in Stdout(other.handler, OtherCurrent) :
          LET o == Bind(other.outs, OtherCurrent.var, s)
              st == Settle(other.handler, other.eff, o, other.records, other.blk, other.pos + 1)
          IN  /\ OtherSite \in DOMAIN env => env[OtherSite] = [ok |-> TRUE, stdout |-> s]
              /\ env' = With(env, OtherSite, [ok |-> TRUE, stdout |-> s])
              /\ other' = [other EXCEPT
                              !.outs = o, !.blk = st.blk, !.pos = st.pos,
                              !.records = st.records,
                              !.issued = Append(other.issued, OtherCurrent.cmd),
                              !.response = IF st.over
                                              THEN Payload(other.handler, other.eff, st.records)
                                              ELSE NoResponse]
    /\ UNCHANGED <<request, handler, eff, blk, pos, issued, failed, outs, records, response,
                   prev>>

\* The second invocation's return reaches the transport.
OtherRespond ==
    /\ other.present
    /\ other.response # NoResponse
    /\ other' = NoOther
    /\ UNCHANGED <<request, handler, eff, blk, pos, issued, failed, outs, records, response,
                   env, prev>>

\* The first invocation's return reaches the transport while the second is
\* still in flight: the second is the one invocation left.
RespondOverlapped ==
    /\ response # NoResponse
    /\ other.present
    /\ request' = other.request
    /\ handler' = other.handler
    /\ eff' = other.eff
    /\ blk' = other.blk
    /\ pos' = other.pos
    /\ issued' = other.issued
    /\ failed' = {}
    /\ outs' = other.outs
    /\ records' = other.records
    /\ response' = other.response
    /\ other' = NoOther
    /\ UNCHANGED <<env, prev>>

NextOverlap ==
    Call \/ ExecOk \/ Respond \/ CallOverlapping \/ OtherExecOk \/ OtherRespond
        \/ RespondOverlapped

SpecOverlap == Init /\ [][NextOverlap]_vars

\* ------------------------------------------------------------------ properties

IsPrefix(s, t) == Len(s) <= Len(t) /\ \A i \in DOMAIN s : s[i] = t[i]

\* the value a request gives for boolean parameter p, false when it omits it
Arg(p) == p \in DOMAIN request.arguments /\ request.arguments[p]

Done == response.kind = "payload"

InWorkflow == request.name = "mac_full_cleanup_workflow"

\* the names of the step records pushed so far
PushedNames ==
    LET pushed == SelectSeq(records, LAMBDA r : r.block \notin {"before", "after"})
    IN  [i \in DOMAIN pushed |-> pushed[i].rec.name]

NamesOf(steps) == [i \in DOMAIN steps |-> steps[i].name]

ExpectedSteps ==
    <<"Empty Trash", "Go Build Cache", "Homebrew Cache", "Chrome Cache", "Spotify Cache",
      "npm Cache", "pip Cache">>
        \o (IF Arg("includeDocker") THEN <<"Docker">> ELSE <<>>)

\* C1: whatever commands fail, the workflow pushes its step records in the
\* fixed order Empty Trash, Go Build Cache, Homebrew Cache, Chrome Cache,
\* Spotify Cache, npm Cache, pip Cache, followed by Docker exactly when
\* includeDocker is true; the after-state capture is issued only once all of
\* them are pushed, and the returned steps list is exactly that list.
C1_WorkflowStepOrder ==
    InWorkflow =>
        /\ IsPrefix(PushedNames, ExpectedSteps)
        /\ (Running /\ Current.var = "after.stdout") => PushedNames = ExpectedSteps
        /\ (\E i \in DOMAIN records : records[i].block = "after") => PushedNames = ExpectedSteps
        /\ Done => NamesOf(response.result.steps) = ExpectedSteps

C1_Witness ==
    /\ InWorkflow /\ Done /\ Arg("includeDocker") /\ failed # {}
    /\ Len(response.result.steps) = 8
    /\ response.result.steps[8].name = "Docker"
    /\ "available" \in DOMAIN response.result.after

\* C2: in the workflow a step in which a command failed is recorded as
\* "skipped" with a note, every step is still recorded and the handler returns
\* the workflow record.
C2_FailedStepSkippedWithNote ==
    (InWorkflow /\ response # NoResponse) =>
        /\ Done
        /\ NamesOf(response.result.steps) = ExpectedSteps
        /\ \A i \in DOMAIN response.result.steps :
              LET step == response.result.steps[i]
              IN  (\E s \in failed : s[1] = step.name) =>
                     /\ step.status = "skipped"
                     /\ "note" \in DOMAIN step \/ "error" \in DOMAIN step

DryRunTools == {"mac_cleanup_caches", "mac_cleanup_docker", "mac_empty_trash",
                "mac_full_cleanup_workflow", "mac_developer_cleanup"}

\* the request asks for a dry run, or leaves it to mac_developer_cleanup's default
DryRunRequested ==
    /\ request.name \in DryRunTools
    /\ \/ Arg("dryRun")
       \/ request.name = "mac_developer_cleanup" /\ "dryRun" \notin DOMAIN request.arguments

DestructiveCommands ==
    { "rm -rf ~/.Trash/* 2>/dev/null",
      "rm -rf $HOME/Library/Caches/Google/Chrome/* 2>/dev/null",
      "rm -rf $HOME/Library/Caches/com.spotify.client/* 2>/dev/null",
      "rm -rf $HOME/Library/Developer/Xcode/DerivedData/* 2>/dev/null",
      "go clean -cache",
      "brew cleanup --prune=all 2>&1 | tail -3",
      "brew cleanup --prune=all 2>&1 | grep -E 'freed|Removing' | tail -1",
      "npm cache clean --force 2>/dev/null",
      "pip cache purge 2>/dev/null",
      "docker system prune -af 2>/dev/null",
      "docker volume prune -f 2>/dev/null" }

WasIssued(c) == \E i \in DOMAIN issued : issued[i] = c

\* C4: an invocation of a tool that accepts dryRun, made with dryRun=true (or,
\* for mac_developer_cleanup, with dryRun omitted), issues no destructive
\* command, whatever its other arguments and whatever commands fail.
C4_DryRunIssuesNothingDestructive ==
    DryRunRequested => \A i \in DOMAIN issued : issued[i] \notin DestructiveCommands

C4_Witness ==
    /\ Done /\ DryRunRequested
    /\ request.name = "mac_developer_cleanup"
    /\ "dryRun" \notin DOMAIN request.arguments
    /\ Arg("cleanXcode")
    /\ WasIssued("du -sh $HOME/Library/Developer/Xcode/DerivedData 2>/dev/null")
    /\ failed # {}

\* C5: when the before-state or the after-state capture of the workflow fails,
\* totalRecovered is not a computed number.
C5_NoRecoveredFigureWithoutCaptures ==
    (InWorkflow /\ Done) =>
        (("error" \in DOMAIN response.result.before \/ "error" \in DOMAIN response.result.after)
            => response.result.totalRecovered = <<"calculating...">>)

DockerCommands ==
    { "docker system df --format '{{.TotalCount}} {{.Size}}' 2>/dev/null",
      "docker system df 2>/dev/null",
      "docker system prune -af 2>/dev/null",
      "docker volume prune -f 2>/dev/null" }

\* C6: the workflow issues a docker command or pushes a Docker record only when
\* includeDocker is true, and issues "docker volume prune" only when
\* includeDockerVolumes and includeDocker are both true; mac_cleanup_docker
\* issues "docker volume prune" only when includeVolumes is true.
C6_DockerGating ==
    /\ InWorkflow =>
          /\ ((\E i \in DOMAIN issued : issued[i] \in DockerCommands)
                 \/ (\E i \in DOMAIN PushedNames : PushedNames[i] = "Docker"))
                => Arg("includeDocker")
          /\ WasIssued("docker volume prune -f 2>/dev/null")
                => Arg("includeDockerVolumes") /\ Arg("includeDocker")
    /\ request.name = "mac_cleanup_docker" =>
          (WasIssued("docker volume prune -f 2>/dev/null") => Arg("includeVolumes"))

C6_Witness ==
    /\ InWorkflow /\ Done
    /\ Arg("includeDocker") /\ ~Arg("includeDockerVolumes")
    /\ WasIssued("docker system prune -af 2>/dev/null")
    /\ ~WasIssued("docker volume prune -f 2>/dev/null")
    /\ response.result.steps[8].status = "cleaned"

\* C7: a request whose name is not a registered tool name makes the request
\* handler throw: no handler runs, no command is issued, no payload is returned.
C7_UnknownToolThrows ==
    (request # NoRequest /\ request.name \notin ToolNames) =>
        /\ response.kind = "throw"
        /\ handler = "none"
        /\ issued = <<>>
        /\ records = <<>>

C7_Witness ==
    /\ request.name = "mac_unknown_tool"
    /\ response = [kind |-> "throw", message |-> "Unknown tool: mac_unknown_tool"]

\* some argument of the request lies outside the enum its parameter declares
EnumViolated ==
    \E p \in DOMAIN request.arguments :
        /\ SchemaEnum(request.name, p) # {}
        /\ IF p = "targets" THEN ~(request.arguments[p] \subseteq SchemaEnum(request.name, p))
           ELSE request.arguments[p] \notin SchemaEnum(request.name, p)

\* C8: a request with an argument outside a declared enum is rejected before
\* the handler runs: the call fails, no handler runs, no command is issued.
C8_EnumRejected ==
    EnumViolated =>
        /\ response.kind = "throw"
        /\ handler = "none"
        /\ issued = <<>>

\* C10: the registered names are pairwise distinct, each matches exactly one
\* case of the switch, each case names a registered tool, and a request for a
\* registered name always gets a handler, never the Unknown-tool branch.
C10_RegistryDispatchLockstep ==
    /\ \A i, j \in DOMAIN tools : tools[i] = tools[j] => i = j
    /\ \A n \in ToolNames : Cardinality(MatchingCases(n)) = 1
    /\ \A i \in DOMAIN SwitchCases : SwitchCases[i] \in ToolNames
    /\ (request # NoRequest /\ request.name \in ToolNames) =>
          handler # "none" /\ response.kind # "throw"
    /\ (request # NoRequest /\ handler # "none") => request.name \in ToolNames

C10_Witness ==
    /\ Done
    /\ request.name = tools[Len(tools)]
    /\ handler = "handleNetworkStatus"
    /\ Len(issued) = 5

\* the step records of a real run as a dry run is to report them
AsDryRun(steps) ==
    [i \in DOMAIN steps |->
        IF steps[i].status = "cleaned" THEN [steps[i] EXCEPT !.status = "would clean"]
        ELSE steps[i]]

\* C3: with the same includeDocker/includeDockerVolumes and the same behaviour
\* of the external commands, the dry run of the workflow returns the step
\* records of the real run, in the same order, with "would clean" in place of
\* "cleaned".
C3_DryRunSameRecords ==
    (InWorkflow /\ Done /\ prev.present /\ prev.repeat = "dryRun") =>
        response.result.steps = AsDryRun(prev.response.result.steps)

\* C9: while the external commands behave the same, a call that passes the
\* declared default of every parameter issues the commands and returns the
\* result of the call with no arguments.
C9_NoArgumentsEqualsDefaults ==
    (prev.present /\ prev.repeat = "defaults") =>
        /\ IsPrefix(issued, prev.issued)
        /\ response # NoResponse => issued = prev.issued /\ response = prev.response

C9_Witness ==
    /\ prev.present /\ prev.repeat = "defaults"
    /\ Done
    /\ request.name = "mac_cleanup_caches"
    /\ request.arguments = SchemaDefaults("mac_cleanup_caches")
    /\ DOMAIN prev.request.arguments = {}
    /\ Len(issued) = 6
    /\ failed # {}

\* C11: for every registered tool and every pattern of rejecting external
\* commands, the call never ends in a throw: once a handler has been selected
\* the response is either still awaited or a payload holding the handler's
\* result, and the rejected commands have all been absorbed by a catch clause.
C11_FailuresNeverPropagate ==
    (request # NoRequest /\ request.name \in ToolNames) =>
        /\ handler # "none"
        /\ response.kind \in {"none", "payload"}
        /\ response.kind = "none" => blk <= Len(Blocks(handler, eff, outs))
        /\ response.kind = "payload" =>
              /\ blk = Len(Blocks(handler, eff, outs)) + 1
              /\ response.result = Result(handler, eff, records)

C11_Witness ==
    /\ Done
    /\ handler = "handleSystemInfo"
    /\ Cardinality(failed) = 1
    /\ Len(issued) = 3
    /\ response.result = [error |-> ErrorMessage("sysctl -n machdep.cpu.brand_string 2>/dev/null || echo 'Apple Silicon'")]

\* the names of the fields in which a record reports a fault
FaultFields == {"error", "note"}

\* C12: once a handler has returned, every external command that rejected is
\* reported in the payload: the record of the block (the whole result, the
\* target or the step) it was issued in carries an error message or a note.
C12_FaultsReportedInBand ==
    Done =>
        \A s \in failed :
            \E i \in DOMAIN records :
                /\ records[i].block = s[1]
                /\ FaultFields \cap DOMAIN records[i].rec # {}

InCleanupCaches == handler = "handleCleanupCaches"

\* the target blocks the request selects
SelectedTargets ==
    SelectSeq(CleanupCachesTargets(eff, outs), LAMBDA b : TargetSelected(eff, b))

TargetFailed(b) == \E s \in failed : s[1] = b.name

\* C13: in mac_cleanup_caches every selected target has its entry in results,
\* whatever happened to the targets before it: the entry of a target whose
\* command rejected is {error: message}, and the entry of every other target is
\* the one it reports when nothing fails.
C13_TargetFailuresIsolated ==
    (InCleanupCaches /\ Done) =>
        /\ DOMAIN response.result.results = {SelectedTargets[k].name : k \in DOMAIN SelectedTargets}
        /\ \A k \in DOMAIN SelectedTargets :
              LET b == SelectedTargets[k]
                  c == b.cmds[1]
              IN  /\ WasIssued(c.cmd)
                  /\ response.result.results[b.name] =
                        IF TargetFailed(b) THEN [error |-> ErrorMessage(c.cmd)] ELSE b.ok
                  /\ (~TargetFailed(b) /\ c.var # "") => Get(outs, c.var) = "stdout: " \o c.cmd

C13_Witness ==
    /\ InCleanupCaches /\ Done
    /\ "all" \in eff.targets
    /\ eff.dryRun
    /\ failed = {<<"brew", "brew cleanup --dry-run 2>&1 | tail -5">>}
    /\ response.result.results["brew"] =
          [error |-> "Command failed: brew cleanup --dry-run 2>&1 | tail -5"]
    /\ response.result.results["spotify"] =
          [size |-> "stdout: du -sh $HOME/Library/Caches/com.spotify.client 2>/dev/null"]

InKillProcess == request.name = "mac_kill_process"

\* C14: mac_kill_process called with neither pid nor name returns at once
\* {success: false, error: "Must provide either pid or name"} and issues no
\* external command, whatever the value of force.
C14_KillNeedsPidOrName ==
    (InKillProcess /\ {"pid", "name"} \cap DOMAIN request.arguments = {}) =>
        /\ response = [kind |-> "payload",
                       result |-> [success |-> FALSE,
                                   error |-> "Must provide either pid or name"]]
        /\ issued = <<>>
        /\ failed = {}

C14_Witness ==
    /\ InKillProcess
    /\ request.arguments = [force |-> TRUE]
    /\ Done
    /\ ~response.result.success

\* the kill command the request's force asks for, aimed at process p
KillCommand(p) == "kill " \o (IF Arg("force") THEN "-9" ELSE "-15") \o " " \o p

\* C15: mac_kill_process sends signal 9 exactly when force is true and 15
\* otherwise, and reports the matching label.  With a pid in the request (any
\* number) the one command issued is the kill of that pid; with only a name it
\* is the kill of the first match of pgrep, and nothing is killed and success
\* is false when pgrep finds none.
C15_KillSignalAndTarget ==
    InKillProcess =>
        /\ "pid" \in DOMAIN request.arguments =>
              /\ IsPrefix(issued, <<KillCommand(ToString(request.arguments.pid))>>)
              /\ Done => issued # <<>>
        /\ ("pid" \notin DOMAIN request.arguments /\ "name" \in DOMAIN request.arguments
                /\ request.arguments.name # "") =>
              /\ IsPrefix(issued, <<"pgrep -f " \o request.arguments.name \o " | head -1",
                                    KillCommand(Get(outs, "foundPid"))>>)
              /\ (Done /\ failed = {} /\ Get(outs, "foundPid") = "") =>
                    Len(issued) = 1 /\ ~response.result.success
              /\ (Done /\ failed = {} /\ Get(outs, "foundPid") # "") => Len(issued) = 2
        /\ (Done /\ response.result.success) =>
              response.result.signal = (IF Arg("force") THEN "SIGKILL" ELSE "SIGTERM")

\* the size du reported is above g GB (1T is 1024G; sizes in K or M, which du
\* prints below 1024 of the unit, are under 1 GB)
AboveGB(size, g) ==
    /\ "num" \in DOMAIN size
    /\ \/ size.unit = "G" /\ size.num > g
       \/ size.unit = "T"

\* C16: mac_go_cache_status recommends CRITICAL exactly when the measured cache
\* is above 20 GB, WARNING exactly when it is above 10 GB and at most 20 GB, and
\* "reasonable" otherwise, whatever unit du reports the size in.
C16_GoCacheThresholds ==
    (handler = "handleGoCacheStatus" /\ Done /\ failed = {}) =>
        response.result.recommendation =
            IF AboveGB(outs.cacheSize, 20) THEN Recommendation(21)
            ELSE IF AboveGB(outs.cacheSize, 10) THEN Recommendation(11)
            ELSE Recommendation(0)

\* the capacity system_profiler reported to this mac_battery_health call
ReportedCapacity == outs.batteryInfo.capacity

\* C17: mac_battery_health derives the health note from the parsed maximum
\* capacity by fixed thresholds: "degraded" below 80%, "wear" from 80% to 89%,
\* "good" at 90% or more.
C17_BatteryHealthThresholds ==
    (handler = "handleBatteryHealth" /\ Done /\ failed = {}
        /\ "capacity" \in DOMAIN outs.batteryInfo) =>
        /\ response.result.maxCapacity = ToString(ReportedCapacity) \o "%"
        /\ ReportedCapacity \in 0..79 =>
              response.result.healthNote =
                 "Battery capacity significantly degraded. Consider replacement."
        /\ ReportedCapacity \in 80..89 =>
              response.result.healthNote = "Battery showing some wear."
        /\ ReportedCapacity >= 90 => response.result.healthNote = "Battery health good."

C17_Witness ==
    /\ handler = "handleBatteryHealth" /\ Done /\ failed = {}
    /\ outs.batteryInfo = [capacity |-> 80]
    /\ response.result.healthNote = "Battery showing some wear."

DfCapture == "df -h / | tail -1"

\* the size measurement that precedes each destructive command of a cleanup
\* step (npm and pip are purged without one)
MeasuredBy ==
    [c \in {"rm -rf ~/.Trash/* 2>/dev/null", "go clean -cache",
            "brew cleanup --prune=all 2>&1 | grep -E 'freed|Removing' | tail -1",
            "rm -rf $HOME/Library/Caches/Google/Chrome/* 2>/dev/null",
            "rm -rf $HOME/Library/Caches/com.spotify.client/* 2>/dev/null",
            "docker system prune -af 2>/dev/null"} |->
        CASE c = "rm -rf ~/.Trash/* 2>/dev/null" -> "du -sh ~/.Trash 2>/dev/null"
          [] c = "go clean -cache" -> "du -sh $GOCACHE 2>/dev/null"
          [] c = "brew cleanup --prune=all 2>&1 | grep -E 'freed|Removing' | tail -1" ->
                "du -sh ~/Library/Caches/Homebrew 2>/dev/null"
          [] c = "rm -rf $HOME/Library/Caches/Google/Chrome/* 2>/dev/null" ->
                "du -sh $HOME/Library/Caches/Google/Chrome 2>/dev/null"
          [] c = "rm -rf $HOME/Library/Caches/com.spotify.client/* 2>/dev/null" ->
                "du -sh $HOME/Library/Caches/com.spotify.client 2>/dev/null"
          [] c = "docker system prune -af 2>/dev/null" ->
                "docker system df --format '{{.TotalCount}} {{.Size}}' 2>/dev/null"]

\* C18: the commands of an invocation are issued one at a time, each after the
\* one before it has exited.  In the workflow the first command to run and
\* exit is the before-state capture, no destructive command precedes it, the
\* after-state capture is the last command of all, and a destructive command
\* directly follows the completed, successful measurement of its resource; the
\* same holds for the rm of mac_empty_trash.
C18_SequentialInProgramOrder ==
    /\ InWorkflow =>
          /\ issued # <<>> => issued[1] = DfCapture
          /\ \A i \in DOMAIN issued :
                /\ issued[i] \in DestructiveCommands => i > 1
                /\ (i > 1 /\ issued[i] = DfCapture) => i = Len(issued) /\ response # NoResponse
                /\ issued[i] \in DOMAIN MeasuredBy =>
                      /\ issued[i - 1] = MeasuredBy[issued[i]]
                      /\ \A s \in failed : s[2] # MeasuredBy[issued[i]]
          /\ Running => Current.cmd \notin {issued[i] : i \in 2..Len(issued)}
    /\ handler = "handleEmptyTrash" =>
          \A i \in DOMAIN issued :
             issued[i] = "rm -rf ~/.Trash/* 2>/dev/null" =>
                /\ i = 2
                /\ issued[1] = "du -sh ~/.Trash 2>/dev/null"
                /\ \A s \in failed : s[2] # "du -sh ~/.Trash 2>/dev/null"

C18_Witness ==
    /\ InWorkflow /\ Done
    /\ ~eff.dryRun /\ eff.includeDocker /\ eff.includeDockerVolumes
    /\ failed = {}
    /\ Len(issued) = 18
    /\ issued[2] = "du -sh ~/.Trash 2>/dev/null"
    /\ issued[3] = "rm -rf ~/.Trash/* 2>/dev/null"
    /\ issued[17] = "docker volume prune -f 2>/dev/null"
    /\ issued[18] = DfCapture

\* C20: within one invocation a destructive command is issued at most once: it
\* is not issued again after it ran or failed, and the command the handler is
\* about to issue is never a destructive command it has issued before.
C20_DestructiveAtMostOnce ==
    /\ \A i, j \in DOMAIN issued :
          (issued[i] \in DestructiveCommands /\ issued[i] = issued[j]) => i = j
    /\ Running =>
          (Current.cmd \in DestructiveCommands => ~WasIssued(Current.cmd))
    /\ \A s \in failed :
          s[2] \in DestructiveCommands =>
             Cardinality({i \in DOMAIN issued : issued[i] = s[2]}) = 1

C20_Witness ==
    /\ handler = "handleDockerCleanup" /\ Done
    /\ failed = {<<"main", "docker system prune -af 2>/dev/null">>}
    /\ issued = <<"docker system df 2>/dev/null", "docker system prune -af 2>/dev/null">>
    /\ "error" \in DOMAIN response.result

\* C19: invocations do not overlap: a second invocation that started while the
\* first is still awaiting an external command issues no external command until
\* the first has returned its result.
C19_InvocationsDoNotOverlap ==
    (other.present /\ response = NoResponse) => other.issued = <<>>

\* the destructive command of each workflow step
StepDestructive ==
    [n \in {StepNames[i] : i \in DOMAIN StepNames} |->
        CASE n = "Empty Trash" -> "rm -rf ~/.Trash/* 2>/dev/null"
          [] n = "Go Build Cache" -> "go clean -cache"
          [] n = "Homebrew Cache" ->
                "brew cleanup --prune=all 2>&1 | grep -E 'freed|Removing' | tail -1"
          [] n = "Chrome Cache" -> "rm -rf $HOME/Library/Caches/Google/Chrome/* 2>/dev/null"
          [] n = "Spotify Cache" ->
                "rm -rf $HOME/Library/Caches/com.spotify.client/* 2>/dev/null"
          [] n = "npm Cache" -> "npm cache clean --force 2>/dev/null"
          [] n = "pip Cache" -> "pip cache purge 2>/dev/null"
          [] n = "Docker" -> "docker system prune -af 2>/dev/null"]

\* command c was issued by this invocation and exited without error
Succeeded(c) == WasIssued(c) /\ \A s \in failed : s[2] # c

\* a "cleaned" step ran its destructive command to a clean exit
CleanedMeansCleaned(step) ==
    step.status = "cleaned" => Succeeded(StepDestructive[step.name])

\* a step whose size probe rejected is skipped without its destructive command
FailedProbeSkips(step) ==
    (/\ StepDestructive[step.name] \in DOMAIN MeasuredBy
     /\ \E s \in failed : s[2] = MeasuredBy[StepDestructive[step.name]]) =>
        /\ step.status = "skipped"
        /\ ~WasIssued(StepDestructive[step.name])

\* a record that says the volumes were cleaned stands for an issued volume prune
VolumesCleanedMeansPruned(step) ==
    ("volumesCleaned" \in DOMAIN step /\ step.volumesCleaned) =>
        WasIssued("docker volume prune -f 2>/dev/null")

\* C21: a step record of the workflow claims a destructive effect only if the
\* effect happened in this invocation: "cleaned" implies the step's destructive
\* command was issued and exited without error, volumesCleaned = true implies
\* "docker volume prune" was issued, and a step whose size probe failed is
\* skipped without issuing its destructive command.
C21_RecordsClaimOnlyWhatHappened ==
    (InWorkflow /\ Done) =>
        \A i \in DOMAIN response.result.steps :
            /\ CleanedMeansCleaned(response.result.steps[i])
            /\ FailedProbeSkips(response.result.steps[i])
            /\ VolumesCleanedMeansPruned(response.result.steps[i])

\* the process rows among the lines the ps command printed
PrintedRows == SelectSeq(outs.stdout, LAMBDA l : "pid" \in DOMAIN l)

\* C22: mac_process_list returns the same shape with and without a filter:
\* header is the column-header line, and processes holds the process rows the
\* command printed, all of them and at most limit: no row is taken as the header.
C22_ProcessListShape ==
    (handler = "handleProcessList" /\ Done /\ failed = {}) =>
        /\ response.result.header = HeaderLine
        /\ response.result.processes = PrintedRows
        /\ Len(response.result.processes) <= eff.limit

\* C23: mac_battery_health reports "Battery health good." only when a maximum
\* capacity of at least 90% was parsed from the power report; when none can be
\* parsed (maxCapacity "N/A") the result does not claim good health.
C23_GoodHealthNeedsCapacity ==
    (handler = "handleBatteryHealth" /\ Done /\ failed = {}
        /\ response.result.healthNote = "Battery health good.") =>
        /\ "capacity" \in DOMAIN outs.batteryInfo
        /\ outs.batteryInfo.capacity >= 90
        /\ response.result.maxCapacity # "N/A"

====
